---- MODULE Spec2Model ----
(***************************************************************************)
(* oclalgo::OpenCLQueue and oclalgo::cl_future (inc/oclalgo/opencl_queue.h) *)
(*                                                                         *)
(* The queue object owns a program cache, a kernel cache and one in-order  *)
(* OpenCL command queue.  AddTask resolves the program and the kernel,     *)
(* binds the argument descriptors, enqueues the kernel and the read-backs  *)
(* and returns a cl_future.  The OpenCL runtime is the environment: it     *)
(* decides whether a build succeeds, it executes the enqueued commands in  *)
(* order, and it fires the event of a command when the command completes.  *)
(*                                                                         *)
(* C++ indices (argIndex, positions in std::vector) are 0-based and are    *)
(* kept 0-based here; TLA+ sequences are 1-based, so element i of a vector *)
(* v is v[i + 1].                                                          *)
(***************************************************************************)
EXTENDS Integers, Sequences, FiniteSets, TLC

VARIABLES
  programs,   \* programs_ : path -> program object
  kernels,    \* kernels_  : kernel_id_str -> kernel object
  nkernels,   \* number of kernel objects the runtime created for this queue
  builds,     \* path -> number of cl::Program::build calls (build counter)
  queue,      \* queue_ : the commands enqueued so far, in enqueue order
  started,    \* number of commands the device has started
  done,       \* number of commands the device has completed
  futures,    \* the cl_future objects returned to the host, in order
  host,       \* what the host thread is doing
  last,       \* the most recent AddTask call: inputs, pre-state, outcome
  ref,        \* the queue object of the run in which no failed-build path was ever submitted
  okPairs,    \* the (path, kernel name) pairs for which AddTask has returned a future
  failed,     \* the paths whose build has failed
  input       \* the submission a single-task host program makes

vars == <<programs, kernels, nkernels, builds, queue, started, done, futures,
          host, last, ref, okPairs, failed, input>>

(***************************************************************************)
(* Bounds                                                                  *)
(***************************************************************************)
\* AddTask calls in one behaviour
MaxTasks == 3
\* longest argument list a single-task host program submits
MaxArgs == 3
\* get()/wait() calls in one behaviour
MaxCalls == 3
\* AddTask has one mandatory descriptor (const First& clData)
MinArgs == 1

(***************************************************************************)
(* Strings.  A string is a sequence of tokens; Sep is the "; " that        *)
(* AddTask puts between the path and the kernel name.                      *)
(***************************************************************************)
Sep == <<";">>

\* Source paths; a path may itself contain "; ".
Paths == { <<"a">>, <<"a", ";", "k">> }

\* Kernel entry points: identifiers, so they hold no "; ".
Names == { <<"k">>, <<"m">> }

(***************************************************************************)
(* enum DataType and cl_data_t                                             *)
(***************************************************************************)
DataType == {"IN", "OUT", "IN_OUT", "LOCALE", "VAR"}

cl_data_t(DT, hostPtr, size) ==
  [io_type |-> DT, host_ptr |-> hostPtr, size |-> size]

\* The descriptor lists of length lo..hi: the descriptor at position i (1-based)
\* points at host array i and has its own size, any direction.
RECURSIVE DirSeqs(_)
DirSeqs(n) ==
  IF n = 0 THEN { <<>> }
  ELSE { Append(s, d) : s \in DirSeqs(n - 1), d \in DataType }

MkArgs(dirs) ==
  [i \in 1..Len(dirs) |-> cl_data_t(dirs[i], i, 4 * i)]

ArgLists(lo, hi) ==
  UNION { { MkArgs(dirs) : dirs \in DirSeqs(n) } : n \in lo..hi }

(***************************************************************************)
(* Helpers for std::unordered_map and std::vector                          *)
(***************************************************************************)
Put(m, k, v) == [x \in DOMAIN m \cup {k} |-> IF x = k THEN v ELSE m[x]]

EmptyMap == [x \in {} |-> x]

(***************************************************************************)
(* ReturnOutData / ComposeOutTuple                                         *)
(***************************************************************************)
\* ReturnOutData as it would be with the IN_OUT case forgotten
ReturnOutData_outOnly(data) ==
  IF data.io_type = "OUT" THEN <<data>> ELSE <<>>

ReturnOutData(data) ==
  IF data.io_type = "OUT" \/ data.io_type = "IN_OUT" THEN <<data>> ELSE <<>>

RECURSIVE ComposeOutTuple(_)
ComposeOutTuple(args) ==
  IF Len(args) = 1
  THEN ReturnOutData(Head(args))
  ELSE ReturnOutData(Head(args)) \o ComposeOutTuple(Tail(args))

(***************************************************************************)
(* OpenCL objects                                                          *)
(***************************************************************************)
\* cl::Program: created from the source of a path; built says whether
\* cl::Program::build succeeded on it.
Program(path, built) == [source |-> path, built |-> built]

\* A default-constructed cl::Kernel (what std::unordered_map::operator[]
\* inserts): it wraps no kernel, so clSetKernelArg and clEnqueueNDRangeKernel
\* fail on it.
NullKernel == [program |-> <<>>, name |-> <<>>, serial |-> 0, args |-> EmptyMap]

\* cl::Kernel(program, name): kernel object number serial of the runtime.
Kernel(path, name, serial) ==
  [program |-> path, name |-> name, serial |-> serial, args |-> EmptyMap]

\* cl::Buffer(context_, flags, size, host_ptr): the buffer allocated by
\* submission task for the argument at argIndex.  copied is the host array
\* whose contents CL_MEM_COPY_HOST_PTR copied in (0: none).
Buffer(task, argIndex, flags, size, copied) ==
  [task |-> task, arg |-> argIndex, flags |-> flags, size |-> size,
   copied |-> copied]

\* What reading past the end of the buffers vector can yield: a cl::Buffer that
\* is no buffer of the submission.
WildBuffer == [task |-> 0, arg |-> 0, flags |-> "?", size |-> 0, copied |-> 0]

\* What clSetKernelArg is given: a buffer, a cl::Local size, or the value
\* *host_ptr.
ArgValue(kind, buffer, size, hostPtr) ==
  [kind |-> kind, buffer |-> buffer, size |-> size, host_ptr |-> hostPtr]

\* The outcomes of that out-of-bounds read: the runtime rejects the handle
\* (cl::Error), accepts it, or the process dies.
UBOutcomes == {"throw", "wild", "crash"}

(***************************************************************************)
(* SetKernelArgs                                                           *)
(*                                                                         *)
(* kb is what the two pointer parameters point at, with the call's         *)
(* bookkeeping: kernel (the cl::Kernel), buffers (the vector), task (the   *)
(* submission the context allocates for), log (the clSetKernelArg calls    *)
(* made, in order) and error (a cl::Error is propagating).                 *)
(***************************************************************************)
\* cl::Kernel::setArg(argIndex, value)
setArg(kb, argIndex, value) ==
  IF kb.kernel = NullKernel
  THEN [kb EXCEPT !.error = TRUE]
  ELSE [kb EXCEPT !.kernel.args = Put(@, argIndex, value),
                  !.log = Append(@, [index |-> argIndex, value |-> value])]

\* std::vector::push_back followed by setArg with the buffer
BindBuffer(kb, argIndex, buffer) ==
  setArg([kb EXCEPT !.buffers = Append(@, buffer)], argIndex,
         ArgValue("buffer", buffer, 0, 0))

\* The single-descriptor overload.
SetKernelArgs1(argIndex, kb, clData) ==
  IF kb.error THEN kb
  ELSE CASE clData.io_type = "IN" ->
              BindBuffer(kb, argIndex,
                Buffer(kb.task, argIndex, "READ_ONLY|COPY_HOST_PTR",
                       clData.size, clData.host_ptr))
         [] clData.io_type = "IN_OUT" ->
              BindBuffer(kb, argIndex,
                Buffer(kb.task, argIndex, "READ_WRITE|COPY_HOST_PTR",
                       clData.size, clData.host_ptr))
         [] clData.io_type = "OUT" ->
              BindBuffer(kb, argIndex,
                Buffer(kb.task, argIndex, "WRITE_ONLY", clData.size, 0))
         [] clData.io_type = "LOCALE" ->
              setArg(kb, argIndex, ArgValue("local", WildBuffer, clData.size, 0))
         [] clData.io_type = "VAR" ->
              setArg(kb, argIndex,
                     ArgValue("value", WildBuffer, 0, clData.host_ptr))

\* SetKernelArgs as it would be with argIndex passed on without the increment
RECURSIVE SetKernelArgs_sameIndex(_, _, _)
SetKernelArgs_sameIndex(argIndex, kb, args) ==
  IF Len(args) = 1
  THEN SetKernelArgs1(argIndex, kb, Head(args))
  ELSE SetKernelArgs_sameIndex(argIndex,
                               SetKernelArgs1(argIndex, kb, Head(args)),
                               Tail(args))

\* The variadic overload: the first descriptor at argIndex, the rest from
\* ++argIndex.
RECURSIVE SetKernelArgs(_, _, _)
SetKernelArgs(argIndex, kb, args) ==
  IF Len(args) = 1
  THEN SetKernelArgs1(argIndex, kb, Head(args))
  ELSE SetKernelArgs(argIndex + 1,
                     SetKernelArgs1(argIndex, kb, Head(args)), Tail(args))

(***************************************************************************)
(* Commands of the in-order queue                                          *)
(***************************************************************************)
\* clEnqueueNDRangeKernel: the kernel with the arguments bound at enqueue time
KernelCmd(task, kernel) ==
  [op |-> "kernel", task |-> task, kernel |-> kernel, arg |-> 0,
   buffer |-> WildBuffer, size |-> 0, host_ptr |-> 0, blocking |-> FALSE]

\* clEnqueueReadBuffer(buffer, blocking, 0, size, host_ptr), enqueued for the
\* descriptor at argIndex
ReadCmd(task, argIndex, buffer, blocking, size, hostPtr) ==
  [op |-> "read", task |-> task, kernel |-> NullKernel, arg |-> argIndex,
   buffer |-> buffer, size |-> size, host_ptr |-> hostPtr,
   blocking |-> blocking]

(***************************************************************************)
(* GetResults                                                              *)
(*                                                                         *)
(* r is the call's view of queue_ and *event: queue (the commands), event  *)
(* (the position in queue of the command the cl::Event belongs to), task,  *)
(* error ("", "cl_error" or "crash") and oob (the argIndex values that     *)
(* were read past the end of buffers).  ub gives, per argIndex, what such  *)
(* a read yields.                                                          *)
(***************************************************************************)
\* enqueueReadBuffer as it would be with no event pointer passed: the event
\* stays the one of the kernel
enqueueReadBuffer_keepsEvent(r, argIndex, buffer, blocking, size, hostPtr) ==
  [r EXCEPT !.queue = Append(@, ReadCmd(r.task, argIndex, buffer, blocking,
                                        size, hostPtr))]

\* queue_.enqueueReadBuffer(buffer, CL_FALSE, 0, size, host_ptr, NULL, event):
\* the command is appended and *event becomes its event.
enqueueReadBuffer(r, argIndex, buffer, blocking, size, hostPtr) ==
  [r EXCEPT !.queue = Append(@, ReadCmd(r.task, argIndex, buffer, blocking,
                                        size, hostPtr)),
            !.event = Len(r.queue) + 1]

\* ReadBack as it would be with CL_TRUE: a blocking read
ReadBack_blocking(argIndex, buffers, r, clData, ub) ==
  IF argIndex < Len(buffers)
  THEN [r EXCEPT !.queue = Append(@, ReadCmd(r.task, argIndex,
                                             buffers[argIndex + 1], TRUE,
                                             clData.size, clData.host_ptr)),
                 !.event = Len(r.queue) + 1]
  ELSE [r EXCEPT !.oob = @ \cup {argIndex},
                 !.error = IF ub[argIndex] = "crash" THEN "crash"
                           ELSE "cl_error"]

\* buffers[argIndex] and the enqueue that uses it
ReadBack(argIndex, buffers, r, clData, ub) ==
  IF argIndex < Len(buffers)
  THEN enqueueReadBuffer(r, argIndex, buffers[argIndex + 1], FALSE,
                         clData.size, clData.host_ptr)
  ELSE LET r1 == [r EXCEPT !.oob = @ \cup {argIndex}]
       IN  CASE ub[argIndex] = "wild" ->
                  enqueueReadBuffer(r1, argIndex, WildBuffer, FALSE,
                                    clData.size, clData.host_ptr)
             [] ub[argIndex] = "throw" -> [r1 EXCEPT !.error = "cl_error"]
             [] ub[argIndex] = "crash" -> [r1 EXCEPT !.error = "crash"]

\* The single-descriptor overload.
GetResults1(argIndex, buffers, r, clData, ub) ==
  IF r.error # "" THEN r
  ELSE IF clData.io_type = "OUT" \/ clData.io_type = "IN_OUT"
       THEN ReadBack(argIndex, buffers, r, clData, ub)
       ELSE r

\* The variadic overload.
RECURSIVE GetResults(_, _, _, _, _)
GetResults(argIndex, buffers, r, args, ub) ==
  IF Len(args) = 1
  THEN GetResults1(argIndex, buffers, r, Head(args), ub)
  ELSE GetResults(argIndex + 1, buffers,
                  GetResults1(argIndex, buffers, r, Head(args), ub),
                  Tail(args), ub)

(***************************************************************************)
(* cl_future                                                               *)
(***************************************************************************)
\* The constructor.  task and args are bookkeeping: the submission the
\* future belongs to and its descriptors.
cl_future(event, buffers, outVal, task, args) ==
  [event_ |-> event, buffers_ |-> buffers, out_val_ |-> outVal,
   task |-> task, args |-> args]

NoFuture == cl_future(0, <<>>, <<>>, 0, <<>>)

\* cl::Event::wait returns once the command of the event has completed.
EventComplete(event, completed) == event <= completed

\* get as it would be if it moved the tuple out of the future
get_moved(fut) == [value |-> fut.out_val_, fut |-> [fut EXCEPT !.out_val_ = <<>>]]

\* cl_future::get after event_.wait(): the value returned and the future
\* afterwards.
get(fut) == [value |-> fut.out_val_, fut |-> fut]

\* cl_future::wait after event_.wait(): the future afterwards.
wait(fut) == fut

(***************************************************************************)
(* OpenCLQueue::AddTask                                                    *)
(*                                                                         *)
(* q is the queue object: [programs, kernels, nkernels, queue].  env is    *)
(* what the environment decides during the call: buildOk (the source       *)
(* compiles), lhsFirst (the compiler evaluates kernels_[id] before the     *)
(* cl::Kernel constructor on its right) and ub (see GetResults).           *)
(***************************************************************************)
\* kernel_id_str as it would be with the kernel name alone as the key
KernelId_nameOnly(pathToProgram, kernelName) == kernelName

\* kernel_id_str
KernelId(pathToProgram, kernelName) == pathToProgram \o Sep \o kernelName

\* programs_.find(pathToProgram) == programs_.end()
NeedBuild(progs, pathToProgram) == pathToProgram \notin DOMAIN progs

\* "load source code" and "build program from source code"
LoadProgram(progs, pathToProgram, buildOk) ==
  IF NeedBuild(progs, pathToProgram)
  THEN [programs |-> Put(progs, pathToProgram, Program(pathToProgram, buildOk)),
        invoked |-> TRUE,
        build_flag |-> buildOk,
        error |-> IF buildOk THEN "" ELSE "build_error"]
  ELSE [programs |-> progs, invoked |-> FALSE, build_flag |-> FALSE,
        error |-> ""]

\* The condition as it would be if the kernel were created on every call
NeedKernel_always(build_flag, ks, kernel_id_str) == TRUE

\* build_flag || kernels_.find(kernel_id_str) == kernels_.end()
NeedKernel(build_flag, ks, kernel_id_str) ==
  build_flag \/ kernel_id_str \notin DOMAIN ks

\* "create OpenCL kernel".  clCreateKernel fails on a program that has no
\* successful build; the assignment then does not happen, but kernels_[id] may
\* already have inserted a default-constructed entry.
CreateKernel(q, progs, build_flag, pathToProgram, kernelName, lhsFirst) ==
  LET kernel_id_str == KernelId(pathToProgram, kernelName)
  IN  IF ~NeedKernel(build_flag, q.kernels, kernel_id_str)
      THEN [kernels |-> q.kernels, nkernels |-> q.nkernels,
            created |-> FALSE, error |-> ""]
      ELSE IF progs[pathToProgram].built
      THEN [kernels |-> Put(q.kernels, kernel_id_str,
                            Kernel(pathToProgram, kernelName, q.nkernels + 1)),
            nkernels |-> q.nkernels + 1, created |-> TRUE, error |-> ""]
      ELSE [kernels |-> IF lhsFirst /\ kernel_id_str \notin DOMAIN q.kernels
                        THEN Put(q.kernels, kernel_id_str, NullKernel)
                        ELSE q.kernels,
            nkernels |-> q.nkernels, created |-> FALSE, error |-> "cl_error"]

\* "providing output data into the cl_future object": what the call has
\* produced once GetResults is through, given kb from SetKernelArgs and r from
\* GetResults.
MakeFuture(ks, kb, r, args) ==
  [kernels |-> ks, queue |-> r.queue, error |-> r.error,
   future |-> IF r.error = ""
              THEN cl_future(r.event, kb.buffers, ComposeOutTuple(args),
                             kb.task, args)
              ELSE NoFuture,
   log |-> kb.log, buffers |-> kb.buffers, oob |-> r.oob]

\* queue_.enqueueNDRangeKernel(kernel, ..., &event): the command is appended
\* and event becomes its event.
enqueueNDRangeKernel(cmds, kernel, task) ==
  [queue |-> Append(cmds, KernelCmd(task, kernel)), event |-> Len(cmds) + 1,
   task |-> task, error |-> "", oob |-> {}]

\* The enqueues that follow SetKernelArgs, which has left kb.
EnqueueTask(cmds, ks, kb, args, ub) ==
  IF kb.error
  THEN [kernels |-> ks, queue |-> cmds, error |-> "cl_error",
        future |-> NoFuture, log |-> kb.log, buffers |-> kb.buffers,
        oob |-> {}]
  ELSE MakeFuture(ks, kb,
                  GetResults(0, kb.buffers,
                             enqueueNDRangeKernel(cmds, kb.kernel, kb.task),
                             args, ub),
                  args)

\* The cached kernel object is the one SetKernelArgs binds: the cache entry
\* carries the arguments afterwards.
BindCached(cmds, ks, kernel_id_str, kb, args, ub) ==
  EnqueueTask(cmds, [ks EXCEPT ![kernel_id_str] = kb.kernel], kb, args, ub)

\* "fill OpenCL command queue"
FillQueue(cmds, ks, kernel_id_str, args, ub) ==
  BindCached(cmds, ks, kernel_id_str,
             SetKernelArgs(0, [kernel |-> ks[kernel_id_str], buffers |-> <<>>,
                               task |-> Len(cmds) + 1, log |-> <<>>,
                               error |-> FALSE],
                           args),
             args, ub)

\* The outcome of a call that the program stage p, the kernel stage k and the
\* queue stage f have gone through.  status is "ok" (a future is returned),
\* "build_error", "cl_error" (another cl::Error leaves the call) or "crash".
Outcome(q, p, k, f) ==
  [programs |-> p.programs, kernels |-> f.kernels, nkernels |-> k.nkernels,
   queue |-> f.queue, status |-> IF f.error = "" THEN "ok" ELSE f.error,
   future |-> f.future, invoked |-> p.invoked, build_flag |-> p.build_flag,
   created |-> k.created, log |-> f.log, buffers |-> f.buffers, oob |-> f.oob]

\* The outcome of a call that a cl::Error leaves before anything is enqueued
Thrown(q, p, ks, status) ==
  [programs |-> p.programs, kernels |-> ks, nkernels |-> q.nkernels,
   queue |-> q.queue, status |-> status, future |-> NoFuture,
   invoked |-> p.invoked, build_flag |-> p.build_flag, created |-> FALSE,
   log |-> <<>>, buffers |-> <<>>, oob |-> {}]

\* From "fill OpenCL command queue" on
AfterKernel(q, p, k, pathToProgram, kernelName, args, env) ==
  IF k.error # ""
  THEN Thrown(q, p, k.kernels, k.error)
  ELSE Outcome(q, p, k,
               FillQueue(q.queue, k.kernels,
                         KernelId(pathToProgram, kernelName), args, env.ub))

\* From "create OpenCL kernel" on
AfterLoad(q, p, pathToProgram, kernelName, args, env) ==
  IF p.error # ""
  THEN Thrown(q, p, q.kernels, p.error)
  ELSE AfterKernel(q, p,
                   CreateKernel(q, p.programs, p.build_flag, pathToProgram,
                                kernelName, env.lhsFirst),
                   pathToProgram, kernelName, args, env)

\* The whole call
AddTaskRun(q, pathToProgram, kernelName, args, env) ==
  AfterLoad(q, LoadProgram(q.programs, pathToProgram, env.buildOk),
            pathToProgram, kernelName, args, env)

(***************************************************************************)
(* State                                                                   *)
(***************************************************************************)
\* The queue object as AddTaskRun takes it
QueueObject == [programs |-> programs, kernels |-> kernels,
                nkernels |-> nkernels, queue |-> queue]

\* The host thread: state is "idle" (between calls), "blocked" (inside
\* event_.wait()), "returned" (get or wait has just returned value) or
\* "crashed"; seen holds <<future, tuple>> for every tuple a get() has returned,
\* ncalls counts the get()/wait() calls.
Idle == [state |-> "idle", op |-> "", fut |-> 0, value |-> <<>>, seen |-> {},
         ncalls |-> 0]

NoInput == [path |-> <<>>, name |-> <<>>, args |-> <<>>]

NoCall == [n |-> 0, path |-> <<>>, name |-> <<>>, args |-> <<>>,
           status |-> "none", invoked |-> FALSE, build_flag |-> FALSE,
           created |-> FALSE, log |-> <<>>, buffers |-> <<>>, oob |-> {},
           future |-> NoFuture, waited |-> FALSE, wasOk |-> FALSE,
           pre |-> [programs |-> EmptyMap, kernels |-> EmptyMap,
                    nkernels |-> 0, queue |-> <<>>],
           refFuture |-> NoFuture, refStatus |-> "none"]

\* The descriptors that get a device buffer
HasBuffer(clData) == clData.io_type \in {"IN", "IN_OUT", "OUT"}

\* What the environment can decide during AddTask(path, name, args) in the
\* current state.  A decision the call never asks for has one value: the
\* build result when nothing is built, the evaluation order when no kernel
\* constructor throws, the result of an out-of-bounds read at an index that
\* is within the buffers the call allocates or that is never read.
Envs(path, args) ==
  LET nbuf == Len(SelectSeq(args, HasBuffer))
      stale == path \in DOMAIN programs /\ ~programs[path].built
  IN  { e \in [buildOk : BOOLEAN, lhsFirst : BOOLEAN,
               ub : [0..(Len(args) - 1) -> UBOutcomes]] :
          /\ (path \in DOMAIN programs => e.buildOk)
          /\ (~stale => ~e.lhsFirst)
          /\ \A i \in 0..(Len(args) - 1) :
               (i < nbuf \/ args[i + 1].io_type \notin {"OUT", "IN_OUT"})
                 => e.ub[i] = "throw" }

\* After the OpenCLQueue constructor: empty caches, an empty in-order queue.
InitQueue ==
  /\ programs = EmptyMap
  /\ kernels = EmptyMap
  /\ nkernels = 0
  /\ builds = [p \in Paths |-> 0]
  /\ queue = <<>>
  /\ started = 0
  /\ done = 0
  /\ futures = <<>>
  /\ host = Idle
  /\ last = NoCall
  /\ ref = [programs |-> EmptyMap, kernels |-> EmptyMap, nkernels |-> 0,
            queue |-> <<>>, futures |-> <<>>]
  /\ okPairs = {}
  /\ failed = {}

\* A host program that submits whatever it likes
Init ==
  /\ InitQueue
  /\ input = NoInput

\* A host program with one task to submit
InitTask ==
  /\ InitQueue
  /\ input \in [path : Paths, name : Names, args : ArgLists(MinArgs, MaxArgs)]

\* A host program that submits one kernel of one source file repeatedly
InitOrder ==
  /\ InitQueue
  /\ input \in [path : {<<"a">>}, name : {<<"k">>},
                args : ArgLists(MinArgs, MaxArgs)]

(***************************************************************************)
(* The host thread calls AddTask                                           *)
(***************************************************************************)
SetMax(S) == CHOOSE x \in S : \A y \in S : y <= x

\* The commands a call has to wait for before it returns: the last blocking
\* one it enqueued (0: none)
BlockedOn(before, after) ==
  LET B == { i \in (Len(before) + 1)..Len(after) : after[i].blocking }
  IN  IF B = {} THEN 0 ELSE SetMax(B)

\* The state after a call with outcome o; o2 is the outcome of the same call
\* on ref, b the command the call blocked on.
Commit(pathToProgram, kernelName, args, o, o2, skip, b) ==
  /\ programs' = o.programs
  /\ kernels' = o.kernels
  /\ nkernels' = o.nkernels
  /\ builds' = IF o.invoked THEN [builds EXCEPT ![pathToProgram] = @ + 1]
               ELSE builds
  /\ queue' = o.queue
  /\ done' = IF b > done THEN b ELSE done
  /\ started' = IF b > started THEN b ELSE started
  /\ futures' = IF o.status = "ok" THEN Append(futures, o.future) ELSE futures
  /\ host' = IF o.status = "crash" THEN [host EXCEPT !.state = "crashed"]
             ELSE host
  /\ last' = [n |-> last.n + 1, path |-> pathToProgram, name |-> kernelName,
              args |-> args, status |-> o.status, invoked |-> o.invoked,
              build_flag |-> o.build_flag, created |-> o.created,
              log |-> o.log, buffers |-> o.buffers, oob |-> o.oob,
              future |-> o.future, waited |-> b > done,
              wasOk |-> <<pathToProgram, kernelName>> \in okPairs,
              pre |-> QueueObject,
              refFuture |-> IF skip THEN NoFuture ELSE o2.future,
              refStatus |-> IF skip THEN "none" ELSE o2.status]
  /\ ref' = IF skip THEN ref
            ELSE [programs |-> o2.programs, kernels |-> o2.kernels,
                  nkernels |-> o2.nkernels, queue |-> o2.queue,
                  futures |-> IF o2.status = "ok"
                              THEN Append(ref.futures, o2.future)
                              ELSE ref.futures]
  /\ okPairs' = IF o.status = "ok"
                THEN okPairs \cup {<<pathToProgram, kernelName>>}
                ELSE okPairs
  /\ failed' = IF o.status = "build_error" THEN failed \cup {pathToProgram}
               ELSE failed

\* The call on ref is skipped when the path's build fails or has failed.
Blocking(pathToProgram, kernelName, args, o, o2) ==
  Commit(pathToProgram, kernelName, args, o, o2,
         pathToProgram \in failed \/ o.status = "build_error",
         BlockedOn(queue, o.queue))

AddTask(pathToProgram, kernelName, args, env) ==
  /\ host.state = "idle"
  /\ last.n < MaxTasks
  /\ Blocking(pathToProgram, kernelName, args,
              AddTaskRun(QueueObject, pathToProgram, kernelName, args, env),
              AddTaskRun(ref, pathToProgram, kernelName, args, env))

\* Any submission with the shortest argument list
Submit ==
  /\ input = NoInput
  /\ \E path \in Paths, name \in Names, args \in ArgLists(MinArgs, MinArgs) :
       \E env \in Envs(path, args) : AddTask(path, name, args, env)
  /\ UNCHANGED input

\* The one submission of the single-task program
SubmitOnce ==
  /\ input # NoInput
  /\ \E env \in Envs(input.path, input.args) :
       AddTask(input.path, input.name, input.args, env)
  /\ input' = NoInput

\* The same task submitted again and again
SubmitAgain ==
  /\ input # NoInput
  /\ \E env \in Envs(input.path, input.args) :
       AddTask(input.path, input.name, input.args, env)
  /\ UNCHANGED input

(***************************************************************************)
(* The device: one in-order command queue                                  *)
(***************************************************************************)
\* The next command starts when all before it have completed.
DeviceStart ==
  /\ started = done
  /\ started < Len(queue)
  /\ started' = started + 1
  /\ UNCHANGED <<programs, kernels, nkernels, builds, queue, done, futures,
                 host, last, ref, okPairs, failed, input>>

\* The running command completes; its event fires.
DeviceComplete ==
  /\ done < started
  /\ done' = done + 1
  /\ UNCHANGED <<programs, kernels, nkernels, builds, queue, started, futures,
                 host, last, ref, okPairs, failed, input>>

(***************************************************************************)
(* The host thread uses a future                                           *)
(***************************************************************************)
\* What the host observes when get or wait on future f returns
Returned(op, f) ==
  [state |-> "returned", op |-> op, fut |-> f,
   value |-> IF op = "get" THEN get(futures[f]).value ELSE <<>>,
   seen |-> IF op = "get" THEN host.seen \cup {<<f, get(futures[f]).value>>}
            ELSE host.seen,
   ncalls |-> IF host.state = "idle" THEN host.ncalls + 1 ELSE host.ncalls]

FutureAfter(op, f) ==
  [futures EXCEPT ![f] = IF op = "get" THEN get(@).fut ELSE wait(@)]

\* get() or wait() is called: it returns at once when the event has fired and
\* blocks in event_.wait() otherwise.
FutureCall ==
  /\ host.state = "idle"
  /\ host.ncalls < MaxCalls
  /\ \E f \in 1..Len(futures), op \in {"get", "wait"} :
       IF EventComplete(futures[f].event_, done)
       THEN /\ host' = Returned(op, f)
            /\ futures' = FutureAfter(op, f)
       ELSE /\ host' = [host EXCEPT !.state = "blocked", !.op = op, !.fut = f,
                                     !.ncalls = @ + 1]
            /\ UNCHANGED futures
  /\ UNCHANGED <<programs, kernels, nkernels, builds, queue, started, done,
                 last, ref, okPairs, failed, input>>

\* event_.wait() returns in the blocked call.
FutureWake ==
  /\ host.state = "blocked"
  /\ EventComplete(futures[host.fut].event_, done)
  /\ host' = Returned(host.op, host.fut)
  /\ futures' = FutureAfter(host.op, host.fut)
  /\ UNCHANGED <<programs, kernels, nkernels, builds, queue, started, done,
                 last, ref, okPairs, failed, input>>

\* The host goes on after the call.
FutureReturn ==
  /\ host.state = "returned"
  /\ host' = [Idle EXCEPT !.seen = host.seen, !.ncalls = host.ncalls]
  /\ UNCHANGED <<programs, kernels, nkernels, builds, queue, started, done,
                 futures, last, ref, okPairs, failed, input>>

(***************************************************************************)
(* Specifications                                                          *)
(***************************************************************************)
\* The caches under any sequence of submissions
Next == Submit

Spec == Init /\ [][Next]_vars

\* One submission of any argument list, the device, and the host using the
\* future
NextTask == SubmitOnce \/ DeviceStart \/ DeviceComplete
              \/ FutureCall \/ FutureWake \/ FutureReturn

SpecTask == InitTask /\ [][NextTask]_vars

\* Repeated submissions and the device
NextOrder == SubmitAgain \/ DeviceStart \/ DeviceComplete

SpecOrder == InitOrder /\ [][NextOrder]_vars

(***************************************************************************)
(* Properties                                                              *)
(***************************************************************************)
IsOut(clData) == clData.io_type \in {"OUT", "IN_OUT"}

\* The positions in queue of the commands of submission task
CmdsOf(task) == { i \in 1..Len(queue) : queue[i].task = task }

\* The 0-based positions of the descriptors of args that satisfy Test, in order
RECURSIVE Positions(_, _, _)
Positions(args, Test(_), from) ==
  IF args = <<>> THEN <<>>
  ELSE (IF Test(Head(args)) THEN <<from>> ELSE <<>>)
         \o Positions(Tail(args), Test, from + 1)

\* The map m on the keys in S
Restrict(m, S) == [x \in DOMAIN m \cap S |-> m[x]]

\* last is a call that has been made
Called == last.status # "none"

LastKey == KernelId(last.path, last.name)

\* C1: a call whose build fails leaves the program cache, the kernel cache and
\* the command queue as they were before the call, with no entry for the path.
C1_BuildFailureLeavesCachesUnchanged ==
  last.status = "build_error" =>
    /\ programs = last.pre.programs
    /\ kernels = last.pre.kernels
    /\ queue = last.pre.queue
    /\ last.path \notin DOMAIN programs

\* C2: every read-back is enqueued from the buffer that SetKernelArgs bound
\* for the same argument, with that argument's size and host pointer, and no
\* read of the buffers vector is out of bounds.
C2_ReadBackFromOwnBuffer ==
  Called =>
    /\ last.oob = {}
    /\ \A i \in 1..Len(queue) :
         queue[i].op = "read" =>
           /\ \E j \in 1..Len(last.log) :
                /\ last.log[j].index = queue[i].arg
                /\ last.log[j].value.kind = "buffer"
                /\ last.log[j].value.buffer = queue[i].buffer
           /\ queue[i].size = last.args[queue[i].arg + 1].size
           /\ queue[i].host_ptr = last.args[queue[i].arg + 1].host_ptr

\* C3: a call for a (path, kernel name) pair for which AddTask has already
\* returned a future builds nothing and creates no kernel object, and enqueues
\* the kernel object that was cached before the call; no path is ever built
\* twice.
C3_ResubmitReusesProgramAndKernel ==
  /\ \A p \in Paths : builds[p] <= 1
  /\ (Called /\ last.wasOk) =>
       /\ ~last.invoked
       /\ ~last.created
       /\ programs = last.pre.programs
       /\ nkernels = last.pre.nkernels
       /\ last.status = "ok"
       /\ LastKey \in DOMAIN last.pre.kernels
       /\ kernels[LastKey].serial = last.pre.kernels[LastKey].serial
       /\ queue[last.future.task].op = "kernel"
       /\ queue[last.future.task].kernel.serial
            = last.pre.kernels[LastKey].serial
       /\ queue[last.future.task].kernel.program = last.path
       /\ queue[last.future.task].kernel.name = last.name

C3_Witness ==
  /\ last.n = 3
  /\ last.wasOk
  /\ last.status = "ok"
  /\ Cardinality(okPairs) = 2

\* C4: a call that no build error ends creates the kernel object for its
\* (path, kernel name) exactly when it built the program or no kernel was
\* cached for the pair; a new kernel name on a compiled path builds nothing,
\* adds one entry and leaves the other entries as they were.
C4_KernelCreatedExactlyWhenNeeded ==
  (Called /\ last.status # "build_error") =>
    /\ last.created <=>
         (last.build_flag \/ LastKey \notin DOMAIN last.pre.kernels)
    /\ (/\ last.path \in DOMAIN last.pre.programs
        /\ last.pre.programs[last.path].built
        /\ LastKey \notin DOMAIN last.pre.kernels)
         => /\ ~last.invoked
            /\ DOMAIN kernels = DOMAIN last.pre.kernels \cup {LastKey}
            /\ nkernels = last.pre.nkernels + 1
            /\ \A id \in DOMAIN last.pre.kernels :
                 kernels[id] = last.pre.kernels[id]

\* C5: the event of a future fires only when the kernel and every read-back
\* of its submission have completed; the kernel is enqueued before its
\* read-backs, there is one read-back per OUT or IN_OUT descriptor, and when
\* get() or wait() has returned all of them have completed.
C5_EventAfterKernelAndReadBacks ==
  \A f \in 1..Len(futures) :
    LET fut == futures[f]
        reads == { i \in CmdsOf(fut.task) : queue[i].op = "read" }
    IN  /\ queue[fut.task].op = "kernel"
        /\ \A i \in reads : i > fut.task
        /\ \A a \in 1..Len(fut.args) :
             IsOut(fut.args[a]) =>
               \E i \in reads : /\ queue[i].arg = a - 1
                                /\ queue[i].host_ptr = fut.args[a].host_ptr
        /\ EventComplete(fut.event_, done)
             => \A i \in CmdsOf(fut.task) : i <= done
        /\ (host.state = "returned" /\ host.fut = f)
             => \A i \in CmdsOf(fut.task) : i <= done

C5_Witness ==
  /\ host.state = "returned"
  /\ Len(futures[host.fut].out_val_) >= 2
  /\ done = Len(queue)

\* C6: the tuple in the future is the OUT and IN_OUT descriptors of the
\* argument list, in argument order, and nothing else.
C6_OutTupleIsOutArgsInOrder ==
  (Called /\ last.status = "ok") =>
    /\ Len(futures) = 1
    /\ futures[1].out_val_ = SelectSeq(last.args, IsOut)

C6_Witness ==
  /\ last.status = "ok"
  /\ Len(futures[1].out_val_) = 2
  /\ Len(last.args) = 3
  /\ ~IsOut(last.args[2])

\* C7: a step of get() or wait() enqueues nothing and leaves the caches, the
\* device and the futures as they are; every get() on a future returns the
\* tuple the future holds, the same each time; a call blocks only while the
\* event has not fired.
C7_GetAndWaitAreIdempotent ==
  [][(host' # host /\ host'.state # "crashed") =>
       /\ UNCHANGED <<programs, kernels, nkernels, builds, queue, started,
                      done, futures>>
       /\ (host'.state = "returned" /\ host'.op = "get")
            => /\ host'.value = futures[host'.fut].out_val_
               /\ \A x \in host'.seen, y \in host'.seen :
                    x[1] = y[1] => x[2] = y[2]
       /\ host'.state = "blocked"
            => ~EventComplete(futures[host'.fut].event_, done)]_vars

C7_Witness ==
  /\ host.state = "returned"
  /\ host.op = "get"
  /\ host.ncalls = 3
  /\ host.seen # {}
  /\ host.value # <<>>

\* C8: with the paths whose build failed left out, the queue object is the one
\* of the run in which those paths were never submitted, and a call for
\* another path returns what it returns in that run.
C8_OtherPathsUnaffectedByBuildFailure ==
  /\ ref.programs = Restrict(programs, Paths \ failed)
  /\ ref.kernels
       = Restrict(kernels,
                  { KernelId(p, k) : p \in Paths \ failed, k \in Names })
  /\ ref.nkernels = nkernels
  /\ ref.queue = queue
  /\ ref.futures = futures
  /\ (Called /\ last.path \notin failed) =>
       /\ last.status = "ok"
       /\ last.refStatus = last.status
       /\ last.refFuture = last.future
       /\ last.invoked <=> last.path \notin DOMAIN last.pre.programs
       /\ last.created <=>
            (last.invoked \/ LastKey \notin DOMAIN last.pre.kernels)
       /\ kernels[LastKey].program = last.path
       /\ queue[last.future.task].kernel = kernels[LastKey]
       /\ queue[Len(queue)].task = last.future.task

C8_Witness ==
  /\ failed # {}
  /\ last.path \notin failed
  /\ last.status = "ok"
  /\ last.invoked
  /\ last.n = 3

\* C9: the commands of a call come after all commands of the calls before it,
\* a call enqueues its kernel and then its read-backs in argument order, a
\* command starts only when every command before it has completed, and the call
\* returns without waiting for a command.
C9_CallsAreSerialized ==
  /\ \A i \in 1..Len(queue), j \in 1..Len(queue) :
       i < j =>
         /\ queue[i].task <= queue[j].task
         /\ j <= started => i <= done
         /\ (queue[i].task = queue[j].task /\ queue[j].op = "read") =>
              \/ queue[i].op = "kernel"
              \/ queue[i].arg < queue[j].arg
  /\ \A i \in 1..Len(queue) :
       queue[i].op = "kernel" <=> queue[i].task = i
  /\ \A f \in 1..Len(futures) :
       Cardinality(CmdsOf(futures[f].task))
         = 1 + Len(SelectSeq(futures[f].args, IsOut))
  /\ ~last.waited

C9_Witness ==
  /\ Len(futures) = 2
  /\ Len(queue) = 6
  /\ started = 4
  /\ done = 3

\* C10: SetKernelArgs binds the descriptor at position i to kernel argument i,
\* for i = 0, 1, ... in this order; the buffer list holds one buffer per IN,
\* IN_OUT or OUT descriptor, in argument order; the future holds this list.
C10_ArgsBoundInOrder ==
  (Called /\ last.status # "build_error") =>
    LET bufpos == Positions(last.args, HasBuffer, 0)
    IN  /\ Len(last.log) = Len(last.args)
        /\ \A i \in 1..Len(last.log) :
             /\ last.log[i].index = i - 1
             /\ last.log[i].value.kind
                  = CASE HasBuffer(last.args[i]) -> "buffer"
                      [] last.args[i].io_type = "LOCALE" -> "local"
                      [] last.args[i].io_type = "VAR" -> "value"
             /\ HasBuffer(last.args[i]) =>
                  /\ last.log[i].value.buffer.arg = i - 1
                  /\ last.log[i].value.buffer.size = last.args[i].size
                  /\ last.log[i].value.buffer \in
                       { last.buffers[j] : j \in 1..Len(last.buffers) }
             /\ last.args[i].io_type = "LOCALE" =>
                  last.log[i].value.size = last.args[i].size
             /\ last.args[i].io_type = "VAR" =>
                  last.log[i].value.host_ptr = last.args[i].host_ptr
        /\ Len(last.buffers) = Len(bufpos)
        /\ \A j \in 1..Len(bufpos) : last.buffers[j].arg = bufpos[j]
        /\ last.status = "ok" => futures[1].buffers_ = last.buffers

C10_Witness ==
  /\ last.status = "ok"
  /\ Len(last.args) = 3
  /\ Len(last.buffers) = 2
  /\ last.args[1].io_type = "LOCALE"

====
